---- MODULE Spec2Model ----
(***************************************************************************)
(* A model of homework.py: a bot that polls the homework-status API and    *)
(* relays status changes and error reports to one Telegram chat.           *)
(*                                                                         *)
(* The source's message texts are Russian; the string literals below are   *)
(* English renderings of them, one distinct literal per source literal.    *)
(***************************************************************************)
EXTENDS Integers, Sequences, FiniteSets, TLC

(***************************************************************************)
(* Bounds of the model.                                                    *)
(***************************************************************************)
\* server timestamps (current_date) and local clock readings are 1..MaxDate
MaxDate == 2
\* number of iterations of the while loop that are explored
MaxCycles == 3
\* number of iterations run before the iteration that a pair of runs compares
MaxFreeCycles == 1

RETRY_TIME == 10

(***************************************************************************)
(* Python and JSON values.                                                 *)
(***************************************************************************)
PyNone == [type |-> "NoneType", n |-> 0]
PyInt(k) == [type |-> "int", n |-> k]
PyStr == [type |-> "str", n |-> 0]

Dates == 1..MaxDate

\* a value stored under "homeworks": a list of records, or something else
PyList(items) == [type |-> "list", items |-> items]
NotAList(t) == [type |-> t, items |-> << >>]

\* a homework record: a JSON object with some of the two keys, or JSON null
Homework(name, status) ==
    [type |-> "dict", keys |-> {"homework_name", "status"},
     homework_name |-> name, status |-> status]
HomeworkNoName(status) ==
    [type |-> "dict", keys |-> {"status"}, homework_name |-> "", status |-> status]
HomeworkNoStatus(name) ==
    [type |-> "dict", keys |-> {"homework_name"}, homework_name |-> name, status |-> ""]
HomeworkNull ==
    [type |-> "NoneType", keys |-> {}, homework_name |-> "", status |-> ""]

\* the parsed body of a response.  keys is the set of strings x for which
\* Python's "x in response" is true (the keys of a dict, the elements of a
\* list, the substrings of a str); absent entries hold PyNone.
JsonDict(keys, hw, date) ==
    [type |-> "dict", keys |-> keys,
     homeworks |-> IF "homeworks" \in keys THEN hw ELSE NotAList("NoneType"),
     current_date |-> IF "current_date" \in keys THEN date ELSE PyNone]
JsonOther(t, members) ==
    [type |-> t, keys |-> members,
     homeworks |-> NotAList("NoneType"), current_date |-> PyNone]

NoResponse == JsonOther("unset", {})

\* types whose values support the "in" operator
Containers == {"dict", "list", "str"}

(***************************************************************************)
(* Exceptions and results of calls.                                        *)
(***************************************************************************)
NoError == [type |-> "", text |-> ""]
Exc(type, text) == [type |-> type, text |-> text]

Returned(v) == [exc |-> NoError, value |-> v]
Raised(type, text) == [exc |-> Exc(type, text), value |-> PyNone]

\* str(KeyError(m)) is repr(m), every other exception here prints its message
str(error) ==
    IF error.type = "KeyError" THEN "'" \o error.text \o "'" ELSE error.text

ENDPOINT == "https://practicum.yandex.ru/api/user_api/homework_statuses/"

HOMEWORK_STATUSES ==
    [approved |-> "Work checked: the reviewer liked everything. Hooray!",
     reviewing |-> "Work taken for review by the reviewer.",
     rejected |-> "Work checked: the reviewer has remarks."]

(***************************************************************************)
(* send_message: bot.send_message either returns or raises.                *)
(***************************************************************************)
Delivered == [ok |-> TRUE, text |-> ""]
TelegramError(text) == [ok |-> FALSE, text |-> text]
BotOutcomes == {Delivered, TelegramError("Timed out")}

\* the logging at line 50 raises once the bot has delivered the message
send_message_RaisesAfterDelivery(outcome) ==
    IF outcome.ok THEN Raised("OSError", "homework.log")
    ELSE Raised("TelegramError", outcome.text)

\* the bot's exception caught and logged inside send_message
send_message_Swallow(outcome) == Returned(PyNone)

send_message(outcome) ==
    IF outcome.ok THEN Returned(PyNone) ELSE Raised("TelegramError", outcome.text)

(***************************************************************************)
(* get_api_answer: http is what requests.get met.                          *)
(***************************************************************************)
HttpError == [kind |-> "RequestException", status_code |-> 0, is_json |-> FALSE,
              json |-> NoResponse]
HttpReply(code, isJson, json) ==
    [kind |-> "Response", status_code |-> code, is_json |-> isJson, json |-> json]

\* the three ways a request fails: transport error, non-200 status, non-JSON body
HttpFailed(http) ==
    http.kind = "RequestException" \/ http.status_code # 200 \/ ~http.is_json

\* the parsed body the server sent, when the request did not fail
BodyOf(http) == IF HttpFailed(http) THEN NoResponse ELSE http.json

\* a failed request answered with an empty dict instead of an exception
get_api_answer_Swallow(http) ==
    IF HttpFailed(http)
    THEN Returned(JsonDict({}, NotAList("NoneType"), PyNone))
    ELSE Returned(http.json)

get_api_answer(http) ==
    IF http.kind = "RequestException"
    THEN Raised("WrongResponseError", "Server error {e}")
    ELSE IF http.status_code # 200
    THEN Raised("WrongResponseError",
                "Endpoint " \o ENDPOINT \o " unavailable. Error "
                    \o ToString(http.status_code))
    ELSE IF ~http.is_json
    THEN Raised("NotJSONError", "Cannot convert the data to Python types")
    ELSE Returned(http.json)

\* the key misspelt: get finds nothing and answers None
dict_get_current_date_Typo(response) ==
    IF response.type # "dict"
    THEN Raised("AttributeError",
                "'" \o response.type \o "' object has no attribute 'get'")
    ELSE Returned(PyNone)

\* response.get('current_date')
dict_get_current_date(response) ==
    IF response.type # "dict"
    THEN Raised("AttributeError",
                "'" \o response.type \o "' object has no attribute 'get'")
    ELSE Returned(response.current_date)

(***************************************************************************)
(* check_response                                                          *)
(***************************************************************************)
\* an empty homeworks list taken for a missing one
check_response_RejectsEmpty(response) ==
    IF response.type # "dict" \/ "homeworks" \notin response.keys
    THEN Raised("KeyError", "homeworks")
    ELSE IF response.homeworks.type # "list" \/ response.homeworks.items = << >>
    THEN Raised("WrongJSONError", "The answer has no list of works.")
    ELSE Returned(response.homeworks)

check_response(response) ==
    LET m1 == IF response.type # "dict" THEN "The answer is not a dict." ELSE ""
    IN  IF response.type \notin Containers
        THEN Raised("TypeError",
                    "argument of type '" \o response.type \o "' is not iterable")
        ELSE
        LET m2 == IF "homeworks" \notin response.keys
                  THEN "The answer has no list of works." ELSE m1
        IN  IF response.type # "dict"
            THEN Raised("TypeError", "indices must be integers")
            ELSE IF "homeworks" \notin response.keys
            THEN Raised("KeyError", "homeworks")
            ELSE
            LET m3 == IF response.homeworks.type # "list"
                      THEN "the value under the key homeworks is not a list"
                      ELSE m2
            IN  IF Len(m3) > 0
                THEN Raised("WrongJSONError", m3)
                ELSE Returned(response.homeworks)

(***************************************************************************)
(* parse_status                                                            *)
(***************************************************************************)
\* the status looked up with a default instead of being checked
parse_status_NoStatusCheck(homework) ==
    IF homework.type \notin Containers
    THEN Raised("TypeError",
                "argument of type '" \o homework.type \o "' is not iterable")
    ELSE IF "homework_name" \notin homework.keys
    THEN Raised("KeyError", "homework_name")
    ELSE Returned("The review status of the work " \o "\"" \o homework.homework_name
                  \o "\"" \o " has changed. "
                  \o (IF homework.status \in DOMAIN HOMEWORK_STATUSES
                      THEN HOMEWORK_STATUSES[homework.status] ELSE ""))

parse_status(homework) ==
    IF homework.type \notin Containers
    THEN Raised("TypeError",
                "argument of type '" \o homework.type \o "' is not iterable")
    ELSE
    LET m1 == IF "homework_name" \notin homework.keys
              THEN "Unknown homework name" ELSE ""
        m2 == IF "status" \notin homework.keys
              THEN "The homework has no review status" ELSE m1
    IN  IF "homework_name" \notin homework.keys
        THEN Raised("KeyError", "homework_name")
        ELSE IF "status" \notin homework.keys
        THEN Raised("KeyError", "status")
        ELSE
        LET homework_name == homework.homework_name
            homework_status == homework.status
            m3 == IF homework_status \notin DOMAIN HOMEWORK_STATUSES
                  THEN "Wrong homework review status" ELSE m2
        IN  IF Len(m3) > 0
            THEN Raised("KeyError", m3)
            ELSE Returned("The review status of the work " \o "\"" \o homework_name
                          \o "\"" \o " has changed. "
                          \o HOMEWORK_STATUSES[homework_status])

(***************************************************************************)
(* check_tokens                                                            *)
(***************************************************************************)
\* "and" written for "or": fails only when all three are missing
check_tokens_And(practicum, telegram, chat) ==
    IF practicum = PyNone /\ telegram = PyNone /\ chat = PyNone
    THEN FALSE
    ELSE TRUE

check_tokens(practicum, telegram, chat) ==
    IF practicum = PyNone \/ telegram = PyNone \/ chat = PyNone
    THEN FALSE
    ELSE TRUE

(***************************************************************************)
(* What the environment can answer.                                        *)
(***************************************************************************)
HwApproved == Homework("hw1", "approved")
HwRejected == Homework("hw1", "rejected")
HwReviewing == Homework("hw2", "reviewing")
HwUnknown == Homework("hw1", "cancelled")

HomeworkLists ==
    { << >>, <<HwApproved>>, <<HwRejected>>, <<HwUnknown>>,
      <<HomeworkNoName("approved")>>, <<HomeworkNoStatus("hw1")>>,
      <<HomeworkNull>>, <<HwApproved, HwReviewing>>, <<HwApproved, HwUnknown>>,
      <<HwUnknown, HwApproved>> }

JsonBodies ==
    { JsonOther("list", {}) }
    \cup { JsonDict({"current_date"}, NotAList("NoneType"), PyInt(1)) }
    \cup { JsonDict({"homeworks", "current_date"}, NotAList("str"), PyInt(1)) }
    \cup { JsonDict({"homeworks", "current_date"}, PyList(l), PyInt(d)) :
             l \in HomeworkLists, d \in Dates }
    \cup { JsonDict({"homeworks"}, PyList(l), PyNone) :
             l \in { << >>, <<HwApproved>> } }

HttpOutcomes ==
    { HttpError }
    \cup { HttpReply(c, TRUE, NoResponse) : c \in {404, 500} }
    \cup { HttpReply(200, FALSE, NoResponse) }
    \cup { HttpReply(200, TRUE, j) : j \in JsonBodies }

(***************************************************************************)
(* State of main().                                                        *)
(***************************************************************************)
VARIABLES
    PRACTICUM_TOKEN, TELEGRAM_TOKEN, TELEGRAM_CHAT_ID, \* PyNone when unset
    pc,                 \* position in main
    current_timestamp,  \* the cursor sent as from_date
    old_error_message,  \* the last error report delivered
    response,           \* main's local response
    homeworks,          \* main's local homeworks
    message,            \* main's local message
    error,              \* the exception being handled or propagating
    last_status,        \* text of the last status message delivered
    cur,                \* what the running iteration did so far
    prev,               \* what the iteration before it did
    twin                \* the other run of a pair of runs of one iteration

vars == << PRACTICUM_TOKEN, TELEGRAM_TOKEN, TELEGRAM_CHAT_ID, pc,
           current_timestamp, old_error_message, response, homeworks, message,
           error, last_status, cur, prev, twin >>

tokens == << PRACTICUM_TOKEN, TELEGRAM_TOKEN, TELEGRAM_CHAT_ID >>

\* the text of the last error report delivered up to the end of iteration it
LastReport(it) ==
    LET d == SelectSeq(it.sent, LAMBDA a : a.channel = "error" /\ a.ok)
    IN  IF d # << >> THEN d[Len(d)].text ELSE it.prior_report

\* the record of one iteration of the loop; iteration 0 is the start-up.
\* slept lists the durations of its time.sleep calls, fetches counts its
\* requests, prior_report is the last error report delivered before it.
Iteration(n) ==
    [cycle |-> n, from_date |-> PyNone, fetched |-> FALSE, fetch_ok |-> FALSE,
     response |-> NoResponse, formatted |-> "", report |-> "", sent |-> << >>,
     slept |-> << >>, fetches |-> 0, prior_report |-> LastReport(cur),
     old_error |-> old_error_message, old_status |-> last_status]

Attempt(channel, text, outcome) ==
    [channel |-> channel, text |-> text, ok |-> outcome.ok]

\* no pair of runs is being compared
NoTwin == [phase |-> "off"]

InitMain ==
    /\ PRACTICUM_TOKEN \in {PyNone, PyStr}
    /\ TELEGRAM_TOKEN \in {PyNone, PyStr}
    /\ TELEGRAM_CHAT_ID \in {PyNone, PyStr}
    /\ pc = "start"
    /\ current_timestamp = PyNone
    /\ old_error_message = ""
    /\ response = NoResponse
    /\ homeworks = NotAList("unset")
    /\ message = ""
    /\ error = NoError
    /\ last_status = ""
    /\ cur = [cycle |-> 0, from_date |-> PyNone, fetched |-> FALSE,
              fetch_ok |-> FALSE, response |-> NoResponse, formatted |-> "",
              report |-> "", sent |-> << >>, slept |-> << >>, fetches |-> 0,
              prior_report |-> "", old_error |-> "", old_status |-> ""]
    /\ prev = cur

Init == InitMain /\ twin = NoTwin

(***************************************************************************)
(* Start-up: lines 134-155.                                                *)
(***************************************************************************)
\* "or" written for "and": one of the two bot credentials is taken to do
CanNotify_Either(telegram, chat) == telegram # PyNone \/ chat # PyNone

\* line 136: TELEGRAM_TOKEN is not None and TELEGRAM_CHAT_ID is not None
CanNotify(telegram, chat) == telegram # PyNone /\ chat # PyNone

\* the API token is missing but the bot can be reached: notify, then raise
StartupNotifyExit ==
    /\ pc = "start"
    /\ ~check_tokens(PRACTICUM_TOKEN, TELEGRAM_TOKEN, TELEGRAM_CHAT_ID)
    /\ CanNotify(TELEGRAM_TOKEN, TELEGRAM_CHAT_ID)
    /\ \E outcome \in BotOutcomes :
         LET m == "No credentials to access the service"
             r == send_message(outcome)
         IN  /\ message' = m
             /\ cur' = [cur EXCEPT !.sent = Append(@, Attempt("startup", m, outcome))]
             /\ error' = IF r.exc # NoError THEN r.exc ELSE Exc("ValueError", m)
    /\ pc' = "terminated"
    /\ UNCHANGED << tokens, twin, current_timestamp, old_error_message, response,
                    homeworks, last_status, prev >>

StartupSilentExit ==
    /\ pc = "start"
    /\ ~check_tokens(PRACTICUM_TOKEN, TELEGRAM_TOKEN, TELEGRAM_CHAT_ID)
    /\ ~CanNotify(TELEGRAM_TOKEN, TELEGRAM_CHAT_ID)
    /\ message' = "Required environment variables are missing. Program stopped."
    /\ error' = Exc("ValueError", message')
    /\ pc' = "terminated"
    /\ UNCHANGED << tokens, twin, current_timestamp, old_error_message, response,
                    homeworks, last_status, cur, prev >>

StartupOk ==
    /\ pc = "start"
    /\ check_tokens(PRACTICUM_TOKEN, TELEGRAM_TOKEN, TELEGRAM_CHAT_ID)
    /\ pc' = "seed"
    /\ UNCHANGED << tokens, twin, current_timestamp, old_error_message, response,
                    homeworks, message, error, last_status, cur, prev >>

\* lines 150-155: the first request, from the local clock
SeedFetch ==
    /\ pc = "seed"
    /\ \E clock \in Dates, http \in HttpOutcomes :
         LET r == get_api_answer(http)
             g == dict_get_current_date(r.value)
         IN  /\ cur' = [cur EXCEPT !.from_date = PyInt(clock), !.fetched = TRUE,
                                   !.fetches = @ + 1,
                                   !.fetch_ok = ~HttpFailed(http),
                                   !.response = BodyOf(http)]
             /\ IF r.exc # NoError
                THEN /\ error' = r.exc
                     /\ current_timestamp' = PyInt(clock)
                     /\ pc' = "terminated"
                     /\ UNCHANGED << response, old_error_message >>
                ELSE /\ response' = r.value
                     /\ IF g.exc # NoError
                        THEN /\ error' = g.exc
                             /\ current_timestamp' = PyInt(clock)
                             /\ pc' = "terminated"
                             /\ UNCHANGED old_error_message
                        ELSE /\ current_timestamp' = g.value
                             /\ old_error_message' = ""
                             /\ pc' = "loop"
                             /\ UNCHANGED error
    /\ UNCHANGED << tokens, twin, homeworks, message, last_status, prev >>

(***************************************************************************)
(* One iteration of the while loop: lines 157-178.                         *)
(***************************************************************************)
\* line 159: get_api_answer(current_timestamp)
GetApiAnswer ==
    /\ pc = "loop"
    /\ cur.cycle < MaxCycles
    /\ \E http \in HttpOutcomes :
         LET r == get_api_answer(http)
         IN  /\ cur' = [Iteration(cur.cycle + 1) EXCEPT
                           !.from_date = current_timestamp, !.fetched = TRUE,
                           !.fetches = 1,
                           !.fetch_ok = ~HttpFailed(http),
                           !.response = BodyOf(http)]
             /\ IF r.exc # NoError
                THEN /\ error' = r.exc
                     /\ pc' = "except"
                     /\ UNCHANGED response
                ELSE /\ response' = r.value
                     /\ pc' = "advance"
                     /\ UNCHANGED error
    /\ prev' = cur
    /\ UNCHANGED << tokens, twin, current_timestamp, old_error_message, homeworks,
                    message, last_status >>

\* the cursor left where it was: the assignment is missing
AdvanceCursor_Skip ==
    /\ pc = "advance"
    /\ LET g == dict_get_current_date(response)
       IN  IF g.exc # NoError
           THEN /\ error' = g.exc
                /\ pc' = "except"
           ELSE /\ pc' = "check"
                /\ UNCHANGED error
    /\ UNCHANGED << tokens, twin, current_timestamp, old_error_message, response,
                    homeworks, message, last_status, cur, prev >>

\* line 160: current_timestamp = response.get('current_date')
AdvanceCursor ==
    /\ pc = "advance"
    /\ LET g == dict_get_current_date(response)
       IN  IF g.exc # NoError
           THEN /\ error' = g.exc
                /\ pc' = "except"
                /\ UNCHANGED current_timestamp
           ELSE /\ current_timestamp' = g.value
                /\ pc' = "check"
                /\ UNCHANGED error
    /\ UNCHANGED << tokens, twin, old_error_message, response, homeworks, message,
                    last_status, cur, prev >>

\* "if len(homeworks) > 1:" written for "if homeworks:"
IsTruthy_MoreThanOne(list) == Len(list.items) > 1

\* "if homeworks:" at line 165
IsTruthy(list) == Len(list.items) > 0

\* lines 161-165 and 169-170
CheckResponse ==
    /\ pc = "check"
    /\ LET r == check_response(response)
       IN  IF r.exc # NoError
           THEN /\ error' = r.exc
                /\ pc' = "except"
                /\ UNCHANGED homeworks
           ELSE /\ homeworks' = r.value
                /\ IF r.value.type # "list"
                   THEN /\ error' = Exc("ValueError",
                                        "The type of the homeworks attribute is not a dict")
                        /\ pc' = "except"
                   ELSE /\ pc' = IF IsTruthy(r.value) THEN "parse" ELSE "sleep"
                        /\ UNCHANGED error
    /\ UNCHANGED << tokens, twin, current_timestamp, old_error_message, response,
                    message, last_status, cur, prev >>

\* the last record formatted instead of the first: homeworks[-1]
ParseStatus_Last ==
    /\ pc = "parse"
    /\ LET r == parse_status(homeworks.items[Len(homeworks.items)])
       IN  IF r.exc # NoError
           THEN /\ error' = r.exc
                /\ pc' = "except"
                /\ UNCHANGED << message, cur >>
           ELSE /\ message' = r.value
                /\ cur' = [cur EXCEPT !.formatted = r.value]
                /\ pc' = "send"
                /\ UNCHANGED error
    /\ UNCHANGED << tokens, twin, current_timestamp, old_error_message, response,
                    homeworks, last_status, prev >>

\* line 167: message = parse_status(homeworks[0])
ParseStatus ==
    /\ pc = "parse"
    /\ LET r == parse_status(homeworks.items[1])
       IN  IF r.exc # NoError
           THEN /\ error' = r.exc
                /\ pc' = "except"
                /\ UNCHANGED << message, cur >>
           ELSE /\ message' = r.value
                /\ cur' = [cur EXCEPT !.formatted = r.value]
                /\ pc' = "send"
                /\ UNCHANGED error
    /\ UNCHANGED << tokens, twin, current_timestamp, old_error_message, response,
                    homeworks, last_status, prev >>

\* line 168: send_message(bot=bot, message=message)
SendStatus ==
    /\ pc = "send"
    /\ \E outcome \in BotOutcomes :
         LET r == send_message(outcome)
         IN  /\ cur' = [cur EXCEPT !.sent = Append(@, Attempt("status", message, outcome))]
             /\ IF r.exc # NoError
                THEN /\ error' = r.exc
                     /\ pc' = "except"
                     /\ UNCHANGED last_status
                ELSE /\ last_status' = message
                     /\ pc' = "sleep"
                     /\ UNCHANGED error
    /\ UNCHANGED << tokens, twin, current_timestamp, old_error_message, response,
                    homeworks, message, prev >>

\* the comparison dropped: every error is reported
ShouldReport_Always(m, old) == TRUE

\* line 173: if message != old_error_message
ShouldReport(m, old) == m # old

\* lines 171-175: except Exception as error
ExceptHandler ==
    /\ pc = "except"
    /\ LET m == "Program failure: " \o str(error)
       IN  /\ message' = m
           /\ IF ShouldReport(m, old_error_message)
              THEN \E outcome \in BotOutcomes :
                     LET r == send_message(outcome)
                     IN  /\ cur' = [cur EXCEPT
                                      !.report = m,
                                      !.sent = Append(@, Attempt("error", m, outcome))]
                         /\ IF r.exc # NoError
                            THEN /\ error' = r.exc
                                 /\ pc' = "terminated"
                                 /\ UNCHANGED old_error_message
                            ELSE /\ old_error_message' = m
                                 /\ error' = NoError
                                 /\ pc' = "sleep"
              ELSE /\ cur' = [cur EXCEPT !.report = m]
                   /\ error' = NoError
                   /\ pc' = "sleep"
                   /\ UNCHANGED old_error_message
    /\ UNCHANGED << tokens, twin, current_timestamp, response, homeworks,
                    last_status, prev >>

\* the last error message cleared when the iteration raised nothing
Sleep_ResetError ==
    /\ pc = "sleep"
    /\ cur' = [cur EXCEPT !.slept = Append(@, RETRY_TIME)]
    /\ old_error_message' = IF cur.report = "" THEN "" ELSE old_error_message
    /\ pc' = "loop"
    /\ UNCHANGED << tokens, twin, current_timestamp, response, homeworks, message,
                    error, last_status, prev >>

\* lines 176 and 178: time.sleep(RETRY_TIME)
Sleep ==
    /\ pc = "sleep"
    /\ cur' = [cur EXCEPT !.slept = Append(@, RETRY_TIME)]
    /\ pc' = "loop"
    /\ UNCHANGED << tokens, twin, current_timestamp, old_error_message, response,
                    homeworks, message, error, last_status, prev >>

Next ==
    \/ StartupNotifyExit
    \/ StartupSilentExit
    \/ StartupOk
    \/ SeedFetch
    \/ GetApiAnswer
    \/ AdvanceCursor
    \/ CheckResponse
    \/ ParseStatus
    \/ SendStatus
    \/ ExceptHandler
    \/ Sleep

Spec == Init /\ [][Next]_vars

(***************************************************************************)
(* Vocabulary of the properties.                                           *)
(***************************************************************************)
AllOk(sent) == \A i \in 1..Len(sent) : sent[i].ok
Count(sent, channel) == Cardinality({i \in 1..Len(sent) : sent[i].channel = channel})
Last(sent) == sent[Len(sent)]

\* the iteration's body has run to its end and the loop goes on
CycleDone == cur.cycle >= 1 /\ pc \in {"sleep", "loop"}

\* a parsed body of the documented shape
ValidResponse(j) ==
    /\ j.type = "dict"
    /\ j.keys = {"homeworks", "current_date"}
    /\ j.homeworks.type = "list"
    /\ j.current_date.type = "int"

\* the status message the body's first record formats to, "" when there is none
StatusMessageOf(j) ==
    IF j.type = "dict" /\ "homeworks" \in j.keys /\ j.homeworks.type = "list"
       /\ Len(j.homeworks.items) > 0
    THEN LET r == parse_status(j.homeworks.items[1])
         IN  IF r.exc = NoError THEN r.value ELSE ""
    ELSE ""

(***************************************************************************)
(* C1: status-channel dedup.  If two iterations in a row produce the same  *)
(* formatted status message and every delivery succeeds, the second one    *)
(* sends no status notification.                                           *)
(***************************************************************************)
C1_StatusDedup ==
    ( /\ cur.cycle >= 2
      /\ StatusMessageOf(prev.response) # ""
      /\ StatusMessageOf(cur.response) = StatusMessageOf(prev.response)
      /\ AllOk(prev.sent) /\ AllOk(cur.sent) )
    => Count(cur.sent, "status") = 0

(***************************************************************************)
(* C2: nothing inside an iteration of the loop terminates the process:     *)
(* the process is terminated only before the loop was entered.             *)
(***************************************************************************)
C2_NoTerminationInsideCycle ==
    pc = "terminated" => cur.cycle = 0

(***************************************************************************)
(* C3: when the delivery of an error report fails in the error handler,    *)
(* the failure is swallowed: the iteration goes on to its sleep and the    *)
(* loop to its next iteration.                                             *)
(***************************************************************************)
C3_ReportFailureSwallowed ==
    ( /\ cur.cycle >= 1
      /\ cur.sent # << >>
      /\ Last(cur.sent).channel = "error"
      /\ ~Last(cur.sent).ok )
    => pc \in {"sleep", "loop"}

(***************************************************************************)
(* C4: error-channel dedup.  Original statement: two consecutive           *)
(* iterations that fail with the same error-report text, every error       *)
(* report attempted being delivered, send exactly one error notification   *)
(* between them.                                                           *)
(***************************************************************************)
SameErrorTwice ==
    /\ cur.cycle >= 2
    /\ prev.report # ""
    /\ cur.report = prev.report
    /\ AllOk(SelectSeq(prev.sent, LAMBDA a : a.channel = "error"))
    /\ AllOk(SelectSeq(cur.sent, LAMBDA a : a.channel = "error"))

C4_ExactlyOneForTwo ==
    SameErrorTwice
    => Count(prev.sent, "error") + Count(cur.sent, "error") = 1

(***************************************************************************)
(* C4, amended: of two consecutive iterations that fail with the same      *)
(* error-report text, the second sends no error notification, and the      *)
(* first sends exactly one if the text differs from the last error report  *)
(* delivered before it and none otherwise.                                 *)
(***************************************************************************)
C4_ErrorDedup ==
    SameErrorTwice
    => /\ Count(cur.sent, "error") = 0
       /\ Count(prev.sent, "error")
            = (IF prev.report # prev.old_error THEN 1 ELSE 0)

C4_Witness ==
    /\ SameErrorTwice
    /\ pc = "loop"
    /\ Count(prev.sent, "error") = 1
    /\ Count(cur.sent, "error") = 0

(***************************************************************************)
(* C5: an iteration whose request fails leaves the cursor unchanged, and   *)
(* the next iteration's request carries the same from_date.                *)
(***************************************************************************)
C5_FailedFetchKeepsCursor ==
    /\ (cur.cycle >= 1 /\ ~cur.fetch_ok) => current_timestamp = cur.from_date
    /\ (cur.cycle >= 2 /\ ~prev.fetch_ok) => cur.from_date = prev.from_date

C5_Witness ==
    /\ cur.cycle >= 2
    /\ ~prev.fetch_ok
    /\ prev.from_date.type = "int"
    /\ cur.from_date = prev.from_date
    /\ pc = "loop"

(***************************************************************************)
(* C6: after a valid response whose homeworks list is empty the iteration  *)
(* sends nothing on either channel and ends with the cursor at the         *)
(* response's current_date, which the next request carries as from_date.   *)
(***************************************************************************)
ValidEmpty(j) == ValidResponse(j) /\ j.homeworks.items = << >>

C6_EmptyHomeworks ==
    /\ (cur.cycle >= 1 /\ ValidEmpty(cur.response))
         => /\ cur.sent = << >>
            /\ pc \in {"advance", "check", "sleep", "loop"}
            /\ CycleDone => current_timestamp = cur.response.current_date
    /\ (cur.cycle >= 2 /\ ValidEmpty(prev.response))
         => /\ prev.sent = << >>
            /\ cur.from_date = prev.response.current_date

C6_Witness ==
    /\ cur.cycle >= 2
    /\ ValidEmpty(prev.response)
    /\ prev.from_date # prev.response.current_date
    /\ cur.from_date = prev.response.current_date

(***************************************************************************)
(* C7: with any one of the three credentials missing the process           *)
(* terminates at start-up: no request, seed or periodic, is ever issued    *)
(* and the loop is never entered.                                          *)
(***************************************************************************)
CredentialMissing ==
    PRACTICUM_TOKEN = PyNone \/ TELEGRAM_TOKEN = PyNone \/ TELEGRAM_CHAT_ID = PyNone

C7_MissingCredentialNoFetch ==
    CredentialMissing
    => /\ ~cur.fetched
       /\ cur.cycle = 0
       /\ pc \in {"start", "terminated"}

C7_Witness ==
    /\ PRACTICUM_TOKEN # PyNone /\ TELEGRAM_TOKEN # PyNone
    /\ TELEGRAM_CHAT_ID = PyNone
    /\ pc = "terminated"

(***************************************************************************)
(* C8: when the first record's status is none of approved, reviewing,      *)
(* rejected, formatting fails and the iteration attempts no status         *)
(* notification: whatever it sends is an error report.                     *)
(***************************************************************************)
UnknownStatus(j) ==
    /\ j.type = "dict" /\ "homeworks" \in j.keys /\ j.homeworks.type = "list"
    /\ Len(j.homeworks.items) > 0
    /\ j.homeworks.items[1].type = "dict"
    /\ \/ "status" \notin j.homeworks.items[1].keys
       \/ j.homeworks.items[1].status \notin {"approved", "reviewing", "rejected"}

C8_UnknownStatusNoStatusNotice ==
    (cur.cycle >= 1 /\ UnknownStatus(cur.response))
    => /\ cur.formatted = ""
       /\ Count(cur.sent, "status") = 0
       /\ pc \notin {"send"}
       /\ pc \in {"sleep", "loop", "terminated"} => cur.report # ""
       /\ ( /\ pc \in {"sleep", "loop", "terminated"}
            /\ cur.response.homeworks.items[1].keys = {"homework_name", "status"} )
          => cur.report = "Program failure: 'Wrong homework review status'"

C8_Witness ==
    /\ cur.cycle >= 1
    /\ UnknownStatus(cur.response)
    /\ cur.response.homeworks.items[1].status = "cancelled"
    /\ pc = "loop"
    /\ Count(cur.sent, "error") = 1

(***************************************************************************)
(* C10: when an iteration's formatted status message differs from the last *)
(* status message delivered and every delivery succeeds, the iteration     *)
(* sends exactly one notification: that message, on the status channel.    *)
(***************************************************************************)
C10_ChangedStatusNotifiedOnce ==
    ( /\ CycleDone
      /\ StatusMessageOf(cur.response) # ""
      /\ StatusMessageOf(cur.response) # cur.old_status
      /\ AllOk(cur.sent) )
    => cur.sent = << [channel |-> "status", text |-> StatusMessageOf(cur.response),
                      ok |-> TRUE] >>

C10_Witness ==
    /\ CycleDone
    /\ cur.cycle >= 2
    /\ cur.old_status # ""
    /\ cur.formatted # ""
    /\ cur.formatted # cur.old_status
    /\ Len(cur.sent) = 1
    /\ last_status = cur.formatted

(***************************************************************************)
(* check_response on its own: one call on any parsed body.                 *)
(***************************************************************************)
HomeworksValues ==
    { PyList(l) : l \in HomeworkLists }
    \cup { NotAList("str"), NotAList("NoneType"), NotAList("dict") }

JsonValues ==
    { JsonDict(k, hw, d) : k \in SUBSET {"homeworks", "current_date"},
                           hw \in HomeworksValues,
                           d \in {PyInt(n) : n \in Dates} \cup {PyNone} }
    \cup { JsonOther(t, m) : t \in {"list", "str"}, m \in {{}, {"homeworks"}} }
    \cup { JsonOther(t, {}) : t \in {"int", "float", "bool", "NoneType"} }

InitCheckResponse ==
    /\ PRACTICUM_TOKEN = PyStr
    /\ TELEGRAM_TOKEN = PyStr
    /\ TELEGRAM_CHAT_ID = PyStr
    /\ pc = "call"
    /\ current_timestamp = PyNone
    /\ old_error_message = ""
    /\ response \in JsonValues
    /\ homeworks = NotAList("unset")
    /\ message = ""
    /\ error = NoError
    /\ last_status = ""
    /\ cur = [cycle |-> 0, from_date |-> PyNone, fetched |-> FALSE,
              fetch_ok |-> FALSE, response |-> NoResponse, formatted |-> "",
              report |-> "", sent |-> << >>, slept |-> << >>, fetches |-> 0,
              prior_report |-> "", old_error |-> "", old_status |-> ""]
    /\ prev = cur
    /\ twin = NoTwin

CallCheckResponse ==
    /\ pc = "call"
    /\ LET r == check_response(response)
       IN  IF r.exc # NoError
           THEN /\ error' = r.exc
                /\ pc' = "raised"
                /\ UNCHANGED homeworks
           ELSE /\ homeworks' = r.value
                /\ pc' = "returned"
                /\ UNCHANGED error
    /\ UNCHANGED << tokens, twin, current_timestamp, old_error_message, response,
                    message, last_status, cur, prev >>

NextCheckResponse == CallCheckResponse

SpecCheckResponse == InitCheckResponse /\ [][NextCheckResponse]_vars

(***************************************************************************)
(* C9: check_response fails with WrongJSONError when the response is not   *)
(* a mapping, when the homeworks key is absent, when the homeworks value   *)
(* is not a list and when the current_date key is absent; in every other   *)
(* case it returns the homeworks list unchanged.                           *)
(***************************************************************************)
InvalidSchema(j) ==
    \/ j.type # "dict"
    \/ "homeworks" \notin j.keys
    \/ j.homeworks.type # "list"
    \/ "current_date" \notin j.keys

C9_ValidateContract ==
    pc \in {"raised", "returned"}
    => IF InvalidSchema(response)
       THEN pc = "raised" /\ error.type = "WrongJSONError"
       ELSE pc = "returned" /\ homeworks = response.homeworks

(***************************************************************************)
(* C11: the cursor is an integer in every reachable state: every from_date *)
(* sent to the API is an integer, whatever the API answered before.        *)
(***************************************************************************)
C11_CursorIsInteger ==
    cur.fetched
    => /\ cur.from_date.type = "int"
       /\ current_timestamp.type = "int"

(***************************************************************************)
(* C12: once the credentials validate, exactly one seed request is made    *)
(* before the first iteration; it sets the cursor to its response's        *)
(* current_date and, whatever homework data it returns, nothing is sent.   *)
(***************************************************************************)
C12_SeedFetch ==
    /\ pc \in {"start", "seed"} => cur.fetches = 0
    /\ (cur.cycle = 0 /\ cur.fetched) => (cur.fetches = 1 /\ cur.sent = << >>)
    /\ (cur.cycle = 0 /\ pc = "loop")
         => /\ current_timestamp = cur.response.current_date
            /\ last_status = ""
            /\ old_error_message = ""
    /\ cur.cycle = 1
         => /\ prev.fetches = 1
            /\ prev.sent = << >>
            /\ prev.slept = << >>
            /\ cur.from_date = prev.response.current_date

C12_Witness ==
    /\ cur.cycle = 1
    /\ StatusMessageOf(prev.response) # ""
    /\ prev.response.current_date.type = "int"
    /\ prev.from_date # prev.response.current_date
    /\ cur.from_date = prev.response.current_date
    /\ prev.sent = << >>

(***************************************************************************)
(* C13: at start-up, with the API token missing and both bot credentials   *)
(* present, exactly one notification is attempted before the process       *)
(* terminates; with the bot token or the chat id missing the process       *)
(* terminates without attempting any.                                      *)
(***************************************************************************)
C13_StartupNotice ==
    CredentialMissing
    => /\ pc = "start" => cur.sent = << >>
       /\ pc = "terminated"
            => IF TELEGRAM_TOKEN # PyNone /\ TELEGRAM_CHAT_ID # PyNone
               THEN /\ Len(cur.sent) = 1
                    /\ cur.sent[1].channel = "startup"
                    /\ cur.sent[1].text = "No credentials to access the service"
               ELSE cur.sent = << >>

C13_Witness ==
    /\ PRACTICUM_TOKEN = PyNone
    /\ TELEGRAM_TOKEN # PyNone /\ TELEGRAM_CHAT_ID # PyNone
    /\ pc = "terminated"
    /\ Len(cur.sent) = 1

(***************************************************************************)
(* C14: a delivery failure of a status notification is not swallowed: it   *)
(* reaches the iteration's error handler, which builds an error report     *)
(* from it and attempts to send the report if it differs from the last     *)
(* error message sent.                                                     *)
(***************************************************************************)
StatusDeliveryFailed ==
    /\ cur.cycle >= 1
    /\ cur.sent # << >>
    /\ cur.sent[1].channel = "status"
    /\ ~cur.sent[1].ok

C14_StatusFailureReported ==
    StatusDeliveryFailed
    => \/ /\ pc = "except"
          /\ error = Exc("TelegramError", "Timed out")
          /\ Len(cur.sent) = 1
       \/ /\ pc \in {"sleep", "loop", "terminated"}
          /\ cur.report = "Program failure: Timed out"
          /\ IF cur.report # cur.old_error
             THEN /\ Len(cur.sent) = 2
                  /\ cur.sent[2].channel = "error"
                  /\ cur.sent[2].text = cur.report
             ELSE Len(cur.sent) = 1

C14_Witness ==
    /\ StatusDeliveryFailed
    /\ pc = "loop"
    /\ Len(cur.sent) = 2
    /\ cur.sent[2] = [channel |-> "error", text |-> "Program failure: Timed out",
                      ok |-> TRUE]

(***************************************************************************)
(* C15: every iteration, whether it succeeds or fails, issues exactly one  *)
(* request and ends with exactly one sleep of the fixed period, so that    *)
(* exactly one sleep lies between two consecutive requests.                *)
(***************************************************************************)
C15_OneFetchOneSleep ==
    cur.cycle >= 1
    => /\ cur.fetches = 1
       /\ cur.slept = (IF pc \in {"loop", "terminated"} THEN <<RETRY_TIME>>
                       ELSE << >>)
       /\ cur.cycle >= 2 => (prev.fetches = 1 /\ prev.slept = <<RETRY_TIME>>)

(***************************************************************************)
(* C16: the cursor is set to the response's current_date right after a     *)
(* successful request, before validation: an iteration whose validation,   *)
(* formatting or delivery then fails still ends with the cursor at that    *)
(* response's current_date.                                                *)
(***************************************************************************)
C16_CursorAdvancesBeforeValidation ==
    (cur.cycle >= 1 /\ cur.fetch_ok /\ cur.response.type = "dict")
    => current_timestamp = (IF pc = "advance" THEN cur.from_date
                            ELSE cur.response.current_date)

C16_Witness ==
    /\ cur.cycle >= 1
    /\ cur.fetch_ok
    /\ cur.response.type = "dict"
    /\ cur.response.homeworks.type = "str"
    /\ cur.report = "Program failure: the value under the key homeworks is not a list"
    /\ cur.from_date # cur.response.current_date
    /\ current_timestamp = cur.response.current_date
    /\ pc = "loop"

(***************************************************************************)
(* C18: the last error message is never reset by a successful iteration:   *)
(* once an error report with text E was delivered, no later iteration      *)
(* delivers E again unless an error report with another text was           *)
(* delivered in between.                                                   *)
(***************************************************************************)
C18_NoRepeatedReport ==
    cur.cycle >= 1
    => \A i \in 1..Len(cur.sent) :
         (cur.sent[i].channel = "error" /\ cur.sent[i].ok)
         => cur.sent[i].text # cur.prior_report

C18_Witness ==
    /\ cur.cycle >= 3
    /\ prev.fetch_ok /\ prev.report = "" /\ prev.sent = << >>
    /\ cur.report # ""
    /\ cur.report = cur.prior_report
    /\ cur.sent = << >>
    /\ pc = "loop"

(***************************************************************************)
(* C19: an iteration delivers at most one notification: never both a       *)
(* status notification and an error report.                                *)
(***************************************************************************)
DeliveredIn(it) == SelectSeq(it.sent, LAMBDA a : a.ok)

C19_AtMostOneDelivered ==
    cur.cycle >= 1 => Len(DeliveredIn(cur)) <= 1

C19_Witness ==
    /\ cur.cycle >= 2
    /\ Len(prev.sent) = 1 /\ prev.sent[1].channel = "status" /\ prev.sent[1].ok
    /\ Len(cur.sent) = 2
    /\ Len(DeliveredIn(cur)) = 1
    /\ pc = "loop"

(***************************************************************************)
(* Two runs of one iteration from the same state.  The program runs up to  *)
(* the start of an iteration, runs it once (the first run), is put back to *)
(* the state the iteration started from and runs it again (the second run) *)
(* on a response with the same current_date and the same record at index   *)
(* 0 but other records behind it, the bot answering as in the first run.   *)
(***************************************************************************)
ProgramState ==
    [pc |-> pc, current_timestamp |-> current_timestamp,
     old_error_message |-> old_error_message, response |-> response,
     homeworks |-> homeworks, message |-> message, error |-> error,
     last_status |-> last_status, cur |-> cur, prev |-> prev]

\* what an iteration sent and the state it leaves to the next one
Observed ==
    [pc |-> pc, current_timestamp |-> current_timestamp,
     old_error_message |-> old_error_message, last_status |-> last_status,
     message |-> message, error |-> error, sent |-> cur.sent,
     report |-> cur.report, formatted |-> cur.formatted, slept |-> cur.slept]

HasFirstRecord(j) ==
    /\ j.type = "dict"
    /\ "homeworks" \in j.keys
    /\ j.homeworks.type = "list"
    /\ Len(j.homeworks.items) >= 1

\* same current_date, same record at index 0, other records behind it
SameHead(a, b) ==
    /\ HasFirstRecord(a) /\ HasFirstRecord(b)
    /\ a.keys = b.keys
    /\ a.current_date = b.current_date
    /\ a.homeworks.items[1] = b.homeworks.items[1]
    /\ a.homeworks.items # b.homeworks.items

IterationEnded ==
    \/ pc = "terminated"
    \/ pc = "loop" /\ cur.cycle = twin.start.cur.cycle + 1

\* the bot answers the second run's attempts as it answered the first run's
SameDeliveries(first, second) ==
    \A i \in 1..Len(second) : i <= Len(first) => second[i].ok = first[i].ok

PairStart ==
    /\ twin.phase = "free"
    /\ pc = "loop"
    /\ cur.cycle < MaxCycles
    /\ twin' = [phase |-> "first", start |-> ProgramState]
    /\ UNCHANGED << tokens, pc, current_timestamp, old_error_message, response,
                    homeworks, message, error, last_status, cur, prev >>

PairRewind ==
    /\ twin.phase = "first"
    /\ IterationEnded
    /\ HasFirstRecord(cur.response)
    /\ twin' = [phase |-> "second", start |-> twin.start,
                first |-> [observed |-> Observed, response |-> cur.response]]
    /\ pc' = twin.start.pc
    /\ current_timestamp' = twin.start.current_timestamp
    /\ old_error_message' = twin.start.old_error_message
    /\ response' = twin.start.response
    /\ homeworks' = twin.start.homeworks
    /\ message' = twin.start.message
    /\ error' = twin.start.error
    /\ last_status' = twin.start.last_status
    /\ cur' = twin.start.cur
    /\ prev' = twin.start.prev
    /\ UNCHANGED tokens

\* what the requests before the compared iteration are answered with: a
\* failure, or one of these bodies
PairPrefixBodies ==
    { NoResponse,
      JsonDict({"homeworks", "current_date"}, PyList(<< >>), PyInt(MaxDate)),
      JsonDict({"homeworks", "current_date"}, PyList(<<HwApproved>>), PyInt(1)),
      JsonDict({"homeworks", "current_date"}, PyList(<<HwUnknown>>), PyInt(1)) }

PairStep ==
    /\ twin.phase = "free" => ~(pc = "loop" /\ cur.cycle >= MaxFreeCycles)
    /\ twin.phase \in {"first", "second"} => ~IterationEnded
    /\ Next
    /\ twin.phase = "free" => cur'.response \in PairPrefixBodies
    /\ twin.phase = "first"
         => \E b \in JsonBodies : SameHead(cur'.response, b)
    /\ twin.phase = "second"
         => /\ SameHead(twin.first.response, cur'.response)
            /\ SameDeliveries(twin.first.observed.sent, cur'.sent)

InitPair == InitMain /\ twin = [phase |-> "free"]

NextPair == PairStep \/ PairStart \/ PairRewind

SpecPair == InitPair /\ [][NextPair]_vars

(***************************************************************************)
(* C17: only homeworks[0] is examined.  For two responses with the same    *)
(* current_date and the same record at index 0 but different records       *)
(* behind it, an iteration started from the same state sends the same      *)
(* notifications and ends in the same state.                               *)
(***************************************************************************)
C17_OnlyFirstRecordExamined ==
    (twin.phase = "second" /\ IterationEnded)
    => Observed = twin.first.observed

C17_Witness ==
    /\ twin.phase = "second"
    /\ IterationEnded
    /\ twin.start.old_error_message # ""
    /\ Len(twin.first.response.homeworks.items) = 1
    /\ Len(cur.response.homeworks.items) = 2
    /\ Len(cur.sent) = 1
    /\ Observed = twin.first.observed

====
